---- MODULE Spec2Model ----
(***************************************************************************)
(* Client-side AI orchestration of aca-ally: the local chat cache          *)
(* (chatStorageService.ts), the three provider clients (geminiService,     *)
(* perplexityService, openai), the homework-help fallback chain            *)
(* (homeworkHelpService.ts) and the chat widget's fallback chain.          *)
(*                                                                         *)
(* Text is a sequence of one-character strings where the code inspects it  *)
(* (toLowerCase / includes) and a sequence of tokens elsewhere; template   *)
(* strings are concatenations (\o) of such sequences.                      *)
(***************************************************************************)
EXTENDS Integers, Sequences, FiniteSets, TLC

\* ------------------------------------------------------------------ bounds
MaxCalls == 1

\* --------------------------------------------------------------- constants
HistoryLimit == 50

Users == {1, 2}
NoUser == 0
NoData == [exists |-> FALSE, sessions |-> <<>>]
NoCall == "none"

\* ------------------------------------------------------------ text helpers
UpperChars == <<"A","B","C","D","E","F","G","H","I","J","K","L","M",
                "N","O","P","Q","R","S","T","U","V","W","X","Y","Z">>
LowerChars == <<"a","b","c","d","e","f","g","h","i","j","k","l","m",
                "n","o","p","q","r","s","t","u","v","w","x","y","z">>

ToLowerChar(c) ==
  IF \E i \in 1..26 : UpperChars[i] = c
    THEN LowerChars[CHOOSE i \in 1..26 : UpperChars[i] = c]
    ELSE c

ToLowerCase(s) == [i \in 1..Len(s) |-> ToLowerChar(s[i])]

Includes(s, kw) ==
  \E i \in 1..(Len(s) - Len(kw) + 1) : SubSeq(s, i, i + Len(kw) - 1) = kw

kwMath == <<"m","a","t","h">>
kwPhysics == <<"p","h","y","s","i","c","s">>
kwComputerScience == <<"c","o","m","p","u","t","e","r"," ","s","c","i","e","n","c","e">>
kwCurrentEvents == <<"c","u","r","r","e","n","t"," ","e","v","e","n","t","s">>
kwHistory == <<"h","i","s","t","o","r","y">>
kwNews == <<"n","e","w","s">>
kwPolitics == <<"p","o","l","i","t","i","c","s">>
kwLiterature == <<"l","i","t","e","r","a","t","u","r","e">>
kwWriting == <<"w","r","i","t","i","n","g">>
kwPhilosophy == <<"p","h","i","l","o","s","o","p","h","y">>
kwChemistry == <<"c","h","e","m","i","s","t","r","y">>
kwBiology == <<"b","i","o","l","o","g","y">>
kwEnglish == <<"e","n","g","l","i","s","h">>
kwLanguage == <<"l","a","n","g","u","a","g","e">>
kwSpanish == <<"s","p","a","n","i","s","h">>
kwFrench == <<"f","r","e","n","c","h">>
kwHello == <<"h","e","l","l","o">>
kwHi == <<"h","i"," ">>
kwHey == <<"h","e","y">>
kwHowAreYou == <<"h","o","w"," ","a","r","e"," ","y","o","u">>
kwHelpWith == <<"h","e","l","p"," ","w","i","t","h">>
kwHomework == <<"h","o","m","e","w","o","r","k">>
kwAssignment == <<"a","s","s","i","g","n","m","e","n","t">>
kwEquation == <<"e","q","u","a","t","i","o","n">>
kwSolve == <<"s","o","l","v","e">>
kwHistorical == <<"h","i","s","t","o","r","i","c","a","l">>
kwScience == <<"s","c","i","e","n","c","e">>
kwScientific == <<"s","c","i","e","n","t","i","f","i","c">>
kwBook == <<"b","o","o","k">>
kwNovel == <<"n","o","v","e","l">>
kwPoem == <<"p","o","e","m">>
kwThank == <<"t","h","a","n","k">>

\* ------------------------------------------------------------------ inputs
Subjects == { <<"M","a","t","h">>,
              <<"h","i","s","t","o","r","y">>,
              <<"W","r","i","t","i","n","g">> }
Questions == { <<"q","?">> }
Messages == { <<"S","o","l","v","e"," ","x">> }
Answers == { <<"a1">> }

\* ---------------------------------------------------------- SubjectRouter
getPreferredAIForSubject(subject0) ==
  LET subject == ToLowerCase(subject0) IN
  IF Includes(subject, kwMath) \/ Includes(subject, kwPhysics)
       \/ Includes(subject, kwComputerScience)
    THEN "Gemini"
  ELSE IF Includes(subject, kwCurrentEvents) \/ Includes(subject, kwHistory)
       \/ Includes(subject, kwNews) \/ Includes(subject, kwPolitics)
    THEN "Perplexity"
  ELSE IF Includes(subject, kwLiterature) \/ Includes(subject, kwWriting)
       \/ Includes(subject, kwPhilosophy)
    THEN "OpenAI"
  ELSE "Gemini"

\* --------------------------------------------------- local chat cache
VARIABLES user, chatStorage, storageOk, clock, chatMessages, call, lastOp, calls

\* the server: requests being handled by the routes, the posts table and the
\* last trending list a ranking query returned
VARIABLES reqs, posts, ranked

\* the rows of the likes table and of the saves table
VARIABLES likes, saves

vars == <<user, chatStorage, storageOk, clock, chatMessages, call, lastOp, calls,
          reqs, posts, ranked, likes, saves>>

clientVars == <<user, chatStorage, storageOk, clock, call, lastOp, calls>>

srvVars == <<reqs, posts, ranked, likes, saves>>

\* no request is being handled, no post exists, no ranking was asked for
NoReqs == <<>>
NoPosts == <<>>
NoRows == <<>>
NoRanking == [query |-> "none"]

\* localStorage item CHAT_STORAGE_KEY: absent (getItem returns null) or the
\* JSON array of ChatSession
Sessions(storage) == IF ~storage.exists THEN <<>> ELSE storage.sessions

Stored(sessions) == [exists |-> TRUE, sessions |-> sessions]

FindSession(sessions, userId) ==
  IF \E i \in 1..Len(sessions) : sessions[i].userId = userId
    THEN CHOOSE i \in 1..Len(sessions) :
           /\ sessions[i].userId = userId
           /\ \A j \in 1..(i - 1) : sessions[j].userId # userId
    ELSE 0

\* faulty variant: the first session is returned whoever owns it
loadChatHistoryFirstSession(storage, userId) ==
  LET sessions == Sessions(storage)
  IN IF Len(sessions) = 0 THEN <<>> ELSE sessions[1].messages

loadChatHistoryFromStorage(storage, userId) ==
  LET sessions == Sessions(storage)
      idx == FindSession(sessions, userId)
  IN IF idx = 0 THEN <<>> ELSE sessions[idx].messages

\* faulty variant: the submit to the server is awaited before the local write, so a
\* failed submit lands in the catch and nothing is written
saveChatMessageAfterSubmit(st, userId, role, content, localOk, remoteOk) ==
  LET newMessage == [id |-> st.clock, userId |-> userId, content |-> content,
                     role |-> role, createdAt |-> st.clock]
      sessions == Sessions(st.storage)
      idx == FindSession(sessions, userId)
      updated ==
        IF idx # 0
          THEN [sessions EXCEPT ![idx].messages = Append(@, newMessage),
                                ![idx].lastUpdated = st.clock]
          ELSE Append(sessions, [userId |-> userId,
                                 messages |-> <<newMessage>>,
                                 lastUpdated |-> st.clock])
  IN IF localOk /\ remoteOk
       THEN [storage |-> Stored(updated), clock |-> st.clock + 1,
             ret |-> newMessage, threw |-> FALSE]
       ELSE [storage |-> st.storage, clock |-> st.clock + 1,
             ret |-> newMessage, threw |-> FALSE]

\* faulty variant: the catch rethrows instead of returning a fallback message
saveChatMessageRethrowing(st, userId, role, content, localOk, remoteOk) ==
  LET newMessage == [id |-> st.clock, userId |-> userId, content |-> content,
                     role |-> role, createdAt |-> st.clock]
      sessions == Sessions(st.storage)
      idx == FindSession(sessions, userId)
      updated ==
        IF idx # 0
          THEN [sessions EXCEPT ![idx].messages = Append(@, newMessage),
                                ![idx].lastUpdated = st.clock]
          ELSE Append(sessions, [userId |-> userId,
                                 messages |-> <<newMessage>>,
                                 lastUpdated |-> st.clock])
  IN IF localOk
       THEN [storage |-> Stored(updated), clock |-> st.clock + 1,
             ret |-> newMessage, threw |-> FALSE]
       ELSE [storage |-> st.storage, clock |-> st.clock + 1,
             ret |-> newMessage, threw |-> TRUE]

\* st = [storage, clock]; localOk is whether getItem/JSON.parse/setItem all
\* complete without throwing; remoteOk is the outcome of the background
\* submit, which the code only logs.
saveChatMessageToStorage(st, userId, role, content, localOk, remoteOk) ==
  LET newMessage == [id |-> st.clock, userId |-> userId, content |-> content,
                     role |-> role, createdAt |-> st.clock]
      sessions == Sessions(st.storage)
      idx == FindSession(sessions, userId)
      updated ==
        IF idx # 0
          THEN [sessions EXCEPT ![idx].messages = Append(@, newMessage),
                                ![idx].lastUpdated = st.clock]
          ELSE Append(sessions, [userId |-> userId,
                                 messages |-> <<newMessage>>,
                                 lastUpdated |-> st.clock])
  IN IF localOk
       THEN [storage |-> Stored(updated), clock |-> st.clock + 1,
             ret |-> newMessage, threw |-> FALSE]
       ELSE [storage |-> st.storage, clock |-> st.clock + 1,
             ret |-> newMessage, threw |-> FALSE]

St == [storage |-> chatStorage, clock |-> clock]

\* ------------------------------------------------------ server chat table
createChatMessage(rows, userId, message, isUser) ==
  Append(rows, [id |-> Len(rows) + 1, userId |-> userId,
                message |-> message, isUser |-> isUser,
                createdAt |-> Len(rows) + 1])

\* rows are inserted in createdAt order, so the selection is already
\* ordered by createdAt
getChatMessagesByUserLimit(rows, userId, limit) ==
  LET mine == SelectSeq(rows, LAMBDA r : r.userId = userId)
  IN SubSeq(mine, 1, IF Len(mine) < limit THEN Len(mine) ELSE limit)

\* the limit left out: limit: number = 50
getChatMessagesByUser(rows, userId) ==
  getChatMessagesByUserLimit(rows, userId, HistoryLimit)

\* ------------------------------------------------------------------- Init
\* what an earlier visit may have left under CHAT_STORAGE_KEY
PriorStorage ==
  Stored(<< [userId |-> 2,
             messages |-> << [id |-> 0, userId |-> 2, content |-> <<"a0">>,
                              role |-> "assistant", createdAt |-> 0] >>,
             lastUpdated |-> 0] >>)

InitialStorages == {NoData, PriorStorage}

IdleCall == [pc |-> "idle", kind |-> "none"]

\* lastOp describes the operation that produced the current state when it is
\* an append or a history read, with its arguments and what it returned
Other == [op |-> "other"]

Init ==
  /\ user \in Users \cup {NoUser}
  /\ chatStorage \in InitialStorages
  /\ storageOk = TRUE
  /\ clock = 1
  /\ chatMessages = <<>>
  /\ call = IdleCall
  /\ lastOp = Other
  /\ calls = 0
  /\ reqs = NoReqs
  /\ posts = NoPosts
  /\ ranked = NoRanking
  /\ likes = NoRows
  /\ saves = NoRows

\* a call has settled and its caller's continuation runs next, in the same
\* turn of the event loop: nothing else happens in between
Returning == call.pc \in {"done", "threw"}

\* ------------------------------------------------------------ auth actions
\* use-auth login / logout keep the stored user in step with the session;
\* signing in happens between calls, signing out (or losing the stored
\* user) may happen while a request is in flight
Login(u) ==
  /\ UNCHANGED srvVars
  /\ call.pc = "idle"
  /\ user = NoUser
  /\ user' = u
  /\ lastOp' = Other
  /\ UNCHANGED <<chatStorage, storageOk, clock, chatMessages, call, calls>>

Logout ==
  /\ UNCHANGED srvVars
  /\ ~Returning
  /\ user # NoUser
  /\ user' = NoUser
  /\ lastOp' = Other
  /\ UNCHANGED <<chatStorage, storageOk, clock, chatMessages, call, calls>>

\* localStorage becomes unusable (quota exceeded, unparsable item) or usable
\* again
StorageFault ==
  /\ UNCHANGED srvVars
  /\ ~Returning
  /\ storageOk' = ~storageOk
  /\ lastOp' = Other
  /\ UNCHANGED <<user, chatStorage, clock, chatMessages, call, calls>>

\* ------------------------------------------- ConversationStore.append
Append1(userId, role, content, remoteOk) ==
  /\ UNCHANGED srvVars
  /\ call.pc = "idle"
  /\ calls < MaxCalls
  /\ calls' = calls + 1
  /\ LET r == saveChatMessageToStorage(St, userId, role, content, storageOk, remoteOk)
     IN /\ chatStorage' = r.storage
        /\ clock' = r.clock
        /\ lastOp' = [op |-> "append", before |-> chatStorage,
                      userId |-> userId, role |-> role,
                      content |-> content, localOk |-> storageOk,
                      remoteOk |-> remoteOk, ret |-> r.ret, threw |-> r.threw]
  /\ UNCHANGED <<user, storageOk, chatMessages, call>>

\* ------------------------------------------- ConversationStore.history
getChatHistory(remoteOk) ==
  /\ UNCHANGED srvVars
  /\ call.pc = "idle"
  /\ lastOp' =
       IF user = NoUser
         THEN [op |-> "history", user |-> user, remoteOk |-> remoteOk,
               ret |-> <<>>, threw |-> FALSE]
       ELSE IF remoteOk
         THEN [op |-> "history", user |-> user, remoteOk |-> remoteOk,
               ret |-> getChatMessagesByUser(chatMessages, user), threw |-> FALSE]
       ELSE [op |-> "history", user |-> user, remoteOk |-> remoteOk,
             ret |-> loadChatHistoryFromStorage(chatStorage, user), threw |-> FALSE]
  /\ UNCHANGED <<user, chatStorage, storageOk, clock, chatMessages, call, calls>>

\* ------------------------------------------------- provider clients
GeminiSuffix == <<"\n\n(Powered by Google Gemini)">>
PerplexitySuffix == <<"\n\n(Powered by Perplexity AI)">>
errorMessage == <<"I'm sorry, but I'm having trouble connecting to my knowledge services right now.">>

HomeworkContent(subject, question) == <<"[">> \o subject \o <<"]", " ">> \o question

generateHomeworkHelp(subject0, question) ==
  LET subject == ToLowerCase(subject0) IN
  IF Includes(subject, kwMath) THEN <<"offline: math">>
  ELSE IF Includes(subject, kwPhysics) THEN <<"offline: physics">>
  ELSE IF Includes(subject, kwChemistry) THEN <<"offline: chemistry">>
  ELSE IF Includes(subject, kwBiology) THEN <<"offline: biology">>
  ELSE IF Includes(subject, kwHistory) THEN <<"offline: history">>
  ELSE IF Includes(subject, kwLiterature) \/ Includes(subject, kwEnglish)
    THEN <<"offline: literature">>
  ELSE IF Includes(subject, kwLanguage) \/ Includes(subject, kwSpanish)
       \/ Includes(subject, kwFrench)
    THEN <<"offline: language">>
  ELSE <<"offline: default">>

\* A call context: the call record h together with the client state the
\* call's synchronous code reads and writes.
Ctx(h) == [h |-> h, storage |-> chatStorage, clock |-> clock, rows |-> chatMessages]

\* one saveChatMessageToStorage made by a call; the call's record keeps what
\* it handed to the store and whether the cache took it
Save(c, userId, role, content, remoteOk) ==
  LET r == saveChatMessageToStorage([storage |-> c.storage, clock |-> c.clock],
                                    userId, role, content, storageOk, remoteOk)
  IN [c EXCEPT !.storage = r.storage,
               !.clock = r.clock,
               !.h.saved = Append(@, [role |-> role, content |-> r.ret.content,
                                      by |-> c.h.at,
                                      stored |-> r.storage # c.storage])]

\* the two saves every provider client makes once it has an answer; the
\* client returns the assistant message, whose content is the raw answer
ClientSaves(c, userContent, answer, remoteOk) ==
  LET c1 == Save(c, c.h.cuid, "user", userContent, remoteOk)
  IN Save(c1, c.h.cuid, "assistant", answer, remoteOk)

\* faulty variant: after Gemini has answered the chain still goes on to Perplexity
AnswerGeminiFallingThrough(c, content, remoteOk) ==
  LET message == content \o GeminiSuffix
      c1 == Save([c EXCEPT !.h.at = "orchestrator"], c.h.uid, "assistant", message, remoteOk)
  IN [c1 EXCEPT !.h.pc = "done", !.h.outcome.Gemini = "ok",
                !.h.tried = Append(@, "Perplexity"),
                !.h.attempts.Perplexity = @ + 1,
                !.h.ret = [text |-> message, source |-> "Gemini"]]

\* homeworkHelpService.ts 39-56
AnswerGemini(c, content, remoteOk) ==
  LET message == content \o GeminiSuffix
      c1 == Save([c EXCEPT !.h.at = "orchestrator"], c.h.uid, "assistant", message, remoteOk)
  IN [c1 EXCEPT !.h.pc = "done", !.h.outcome.Gemini = "ok",
                !.h.ret = [text |-> message, source |-> "Gemini"]]

\* faulty variant: the Perplexity answer is returned without its attribution
AnswerPerplexityPlain(c, content, remoteOk) ==
  LET c1 == Save([c EXCEPT !.h.at = "orchestrator"], c.h.uid, "assistant", content, remoteOk)
  IN [c1 EXCEPT !.h.pc = "done", !.h.outcome.Perplexity = "ok",
                !.h.ret = [text |-> content, source |-> "Perplexity"]]

\* homeworkHelpService.ts 64-81
AnswerPerplexity(c, content, remoteOk) ==
  LET message == content \o PerplexitySuffix
      c1 == Save([c EXCEPT !.h.at = "orchestrator"], c.h.uid, "assistant", message, remoteOk)
  IN [c1 EXCEPT !.h.pc = "done", !.h.outcome.Perplexity = "ok",
                !.h.ret = [text |-> message, source |-> "Perplexity"]]

\* homeworkHelpService.ts 89-103
AnswerOpenAI(c, content, remoteOk) ==
  LET c1 == Save([c EXCEPT !.h.at = "orchestrator"], c.h.uid, "assistant", content, remoteOk)
  IN [c1 EXCEPT !.h.pc = "done",
                !.h.ret = [text |-> content, source |-> "OpenAI"]]

\* homeworkHelpService.ts 104-124
AnswerError(c, remoteOk) ==
  LET c1 == Save([c EXCEPT !.h.at = "orchestrator"], c.h.uid, "assistant", errorMessage, remoteOk)
  IN [c1 EXCEPT !.h.pc = "done", !.h.outcome.OpenAI = "failed",
                !.h.ret = [text |-> errorMessage, source |-> "Error"]]

\* getOpenAIHomeworkHelp is entered (catch of the Perplexity attempt): the
\* client reads the current user, throws without one, else posts to
\* /api/homework/help
CallOpenAI(c, remoteOk) ==
  LET c1 == [c EXCEPT !.h.outcome.Perplexity = "failed",
                      !.h.tried = Append(@, "OpenAI"),
                      !.h.at = "OpenAI"]
  IN IF user = NoUser
       THEN AnswerError(c1, remoteOk)
       ELSE [c1 EXCEPT !.h.cuid = user, !.h.pc = "openai",
                       !.h.attempts.OpenAI = @ + 1]

\* getPerplexityHomeworkHelp is entered (catch of the Gemini attempt)
CallPerplexity(c, remoteOk) ==
  LET c1 == [c EXCEPT !.h.outcome.Gemini = "failed",
                      !.h.tried = Append(@, "Perplexity"),
                      !.h.at = "Perplexity"]
  IN IF user = NoUser
       THEN CallOpenAI(c1, remoteOk)
       ELSE [c1 EXCEPT !.h.cuid = user, !.h.pc = "perplexity",
                       !.h.attempts.Perplexity = @ + 1]

Commit(c) ==
  /\ call' = c.h
  /\ chatStorage' = c.storage
  /\ clock' = c.clock
  /\ chatMessages' = c.rows
  /\ lastOp' = Other

Zero3 == [Gemini |-> 0, Perplexity |-> 0, OpenAI |-> 0]

\* HomeworkHelpForm.handleSubmit -> getIntegratedHomeworkHelp, up to the
\* first await (the request of getGeminiHomeworkHelp is in flight)
HomeworkStart(subject, question, remoteOk) ==
  /\ UNCHANGED srvVars
  /\ call.pc = "idle"
  /\ calls < MaxCalls
  /\ calls' = calls + 1
  /\ UNCHANGED <<user, storageOk>>
  /\ LET h0 == [pc |-> "gemini_server", kind |-> "homework", subject |-> subject, question |-> question,
                announced |-> getPreferredAIForSubject(subject),
                uid |-> user, cuid |-> user, at |-> "orchestrator",
                tried |-> <<"Gemini">>,
                attempts |-> [Zero3 EXCEPT !.Gemini = 1],
                outcome |-> [Gemini |-> "untried", Perplexity |-> "untried",
                             OpenAI |-> "untried"],
                saved |-> <<>>, ret |-> [text |-> <<>>, source |-> NoCall]]
     IN IF user = NoUser
          THEN Commit(Ctx([h0 EXCEPT !.pc = "threw", !.tried = <<>>,
                                     !.attempts = Zero3]))
          ELSE Commit([Save(Ctx(h0), user, "user", HomeworkContent(subject, question),
                            remoteOk) EXCEPT !.h.at = "Gemini"])

\* faulty variant: getGeminiHomeworkHelp gives up after the server route, without
\* the client-side attempt
HwGeminiServerOnly(serverOk, answer, remoteOk) ==
  /\ UNCHANGED srvVars
  /\ call.pc = "gemini_server"
  /\ UNCHANGED <<user, storageOk, calls>>
  /\ IF serverOk
       THEN LET content == HomeworkContent(call.subject, call.question)
                rows1 == createChatMessage(chatMessages, call.cuid, content, TRUE)
                rows2 == createChatMessage(rows1, call.cuid, answer, FALSE)
                c1 == ClientSaves([Ctx(call) EXCEPT !.rows = rows2], content, answer,
                                  remoteOk)
            IN Commit(AnswerGemini(c1, answer, remoteOk))
       ELSE Commit(CallPerplexity(Ctx(call), remoteOk))

\* POST /api/gemini/homework answers
HwGeminiServer(serverOk, answer, remoteOk) ==
  /\ UNCHANGED srvVars
  /\ call.pc = "gemini_server"
  /\ UNCHANGED <<user, storageOk, calls>>
  /\ IF serverOk
       THEN LET content == HomeworkContent(call.subject, call.question)
                rows1 == createChatMessage(chatMessages, call.cuid, content, TRUE)
                rows2 == createChatMessage(rows1, call.cuid, answer, FALSE)
                c1 == ClientSaves([Ctx(call) EXCEPT !.rows = rows2], content, answer,
                                  remoteOk)
            IN Commit(AnswerGemini(c1, answer, remoteOk))
       ELSE Commit(Ctx([call EXCEPT !.pc = "gemini_prime", !.attempts.Gemini = @ + 1]))

\* client-side chat.sendMessage(systemInstruction) answers
HwGeminiPrime(directOk, remoteOk) ==
  /\ UNCHANGED srvVars
  /\ call.pc = "gemini_prime"
  /\ UNCHANGED <<user, storageOk, calls>>
  /\ IF directOk
       THEN Commit(Ctx([call EXCEPT !.pc = "gemini_prompt", !.attempts.Gemini = @ + 1]))
       ELSE Commit(CallPerplexity(Ctx(call), remoteOk))

\* client-side chat.sendMessage(prompt) answers
HwGeminiPrompt(directOk, answer, remoteOk) ==
  /\ UNCHANGED srvVars
  /\ call.pc = "gemini_prompt"
  /\ UNCHANGED <<user, storageOk, calls>>
  /\ IF directOk
       THEN LET c1 == ClientSaves(Ctx(call), HomeworkContent(call.subject, call.question),
                                  answer, remoteOk)
            IN Commit(AnswerGemini(c1, answer, remoteOk))
       ELSE Commit(CallPerplexity(Ctx(call), remoteOk))

\* POST /api/perplexity/homework answers: "ok", "rejected" (no session, bad
\* body, network error) or "provider" (the route stored the user row and
\* the provider then failed)
HwPerplexity(server, answer, remoteOk) ==
  /\ UNCHANGED srvVars
  /\ call.pc = "perplexity"
  /\ UNCHANGED <<user, storageOk, calls>>
  /\ LET content == HomeworkContent(call.subject, call.question)
         rows1 == createChatMessage(chatMessages, call.cuid, content, TRUE)
         rows2 == createChatMessage(rows1, call.cuid, answer, FALSE)
     IN CASE server = "ok" ->
               Commit(AnswerPerplexity(
                        ClientSaves([Ctx(call) EXCEPT !.rows = rows2], content, answer,
                                    remoteOk),
                        answer, remoteOk))
          [] server = "provider" ->
               Commit(CallOpenAI([Ctx(call) EXCEPT !.rows = rows1], remoteOk))
          [] OTHER ->
               Commit(CallOpenAI(Ctx(call), remoteOk))

\* POST /api/homework/help answers; getHomeworkHelp never rethrows: without
\* a usable response it answers from generateHomeworkHelp
HwOpenAI(serverOk, answer, remoteOk) ==
  /\ UNCHANGED srvVars
  /\ call.pc = "openai"
  /\ UNCHANGED <<user, storageOk, calls>>
  /\ LET content == HomeworkContent(call.subject, call.question)
         text == IF serverOk THEN answer
                 ELSE generateHomeworkHelp(call.subject, call.question)
         c0 == [Ctx(call) EXCEPT !.h.outcome.OpenAI = IF serverOk THEN "ok" ELSE "offline"]
         c1 == ClientSaves(c0, content, text, remoteOk)
     IN Commit(AnswerOpenAI(c1, text, remoteOk))

\* ------------------------------------------------------- chat widget
uiErrorMessage == <<"I'm having trouble connecting to my knowledge base right now. Please try again later.">>
uiSimulated == <<"I'd be happy to help! For more detailed assistance, please sign in to your account.">>

generateLocalResponse(message0) ==
  LET message == ToLowerCase(message0) IN
  IF Includes(message, kwHello) \/ Includes(message, kwHi) \/ Includes(message, kwHey)
    THEN <<"local: hello">>
  ELSE IF Includes(message, kwHowAreYou) THEN <<"local: how are you">>
  ELSE IF Includes(message, kwHelpWith) \/ Includes(message, kwHomework)
       \/ Includes(message, kwAssignment)
    THEN <<"local: assignment">>
  ELSE IF Includes(message, kwMath) \/ Includes(message, kwEquation)
       \/ Includes(message, kwSolve)
    THEN <<"local: math">>
  ELSE IF Includes(message, kwHistory) \/ Includes(message, kwHistorical)
    THEN <<"local: history">>
  ELSE IF Includes(message, kwScience) \/ Includes(message, kwScientific)
       \/ Includes(message, kwPhysics) \/ Includes(message, kwChemistry)
       \/ Includes(message, kwBiology)
    THEN <<"local: science">>
  ELSE IF Includes(message, kwLiterature) \/ Includes(message, kwBook)
       \/ Includes(message, kwNovel) \/ Includes(message, kwPoem)
    THEN <<"local: literature">>
  ELSE IF Includes(message, kwThank) THEN <<"local: thanks">>
  ELSE <<"local: default">>

\* part_020 231-245: the assistant message put on screen
ShowAnswer(c, responseMessage, responseSource) ==
  [c EXCEPT !.h.pc = "done",
            !.h.ret = [text |-> IF responseSource = "Perplexity"
                                  THEN responseMessage \o PerplexitySuffix
                                ELSE IF responseSource = "Gemini"
                                  THEN responseMessage \o GeminiSuffix
                                ELSE responseMessage,
                       source |-> responseSource]]

\* part_020 246-264: the outer catch
ShowError(c) ==
  [c EXCEPT !.h.pc = "done", !.h.outcome.OpenAI = "failed",
            !.h.ret = [text |-> uiErrorMessage, source |-> "Error"]]

\* sendChatMessage is entered (catch of the Perplexity attempt)
WCallOpenAI(c) ==
  LET c1 == [c EXCEPT !.h.outcome.Perplexity = "failed",
                      !.h.tried = Append(@, "OpenAI"),
                      !.h.at = "OpenAI"]
  IN IF user = NoUser
       THEN ShowError(c1)
       ELSE [c1 EXCEPT !.h.cuid = user, !.h.pc = "w_openai",
                       !.h.attempts.OpenAI = @ + 1]

\* sendPerplexityMessage is entered (catch of the Gemini attempt)
WCallPerplexity(c) ==
  LET c1 == [c EXCEPT !.h.outcome.Gemini = "failed",
                      !.h.tried = Append(@, "Perplexity"),
                      !.h.at = "Perplexity"]
  IN IF user = NoUser
       THEN WCallOpenAI(c1)
       ELSE [c1 EXCEPT !.h.cuid = user, !.h.pc = "w_perplexity",
                       !.h.attempts.Perplexity = @ + 1]

\* AIChatWidget.handleSubmit up to the first await
WidgetStart(message, minimal) ==
  /\ UNCHANGED srvVars
  /\ call.pc = "idle"
  /\ calls < MaxCalls
  /\ calls' = calls + 1
  /\ UNCHANGED <<user, storageOk>>
  /\ LET h0 == [pc |-> "w_gemini_server", kind |-> "widget", message |-> message,
                minimal |-> minimal,
                uid |-> user, cuid |-> user, at |-> "Gemini",
                tried |-> <<"Gemini">>,
                attempts |-> [Zero3 EXCEPT !.Gemini = 1],
                outcome |-> [Gemini |-> "untried", Perplexity |-> "untried",
                             OpenAI |-> "untried"],
                saved |-> <<>>, ret |-> [text |-> <<>>, source |-> NoCall]]
         none == [h0 EXCEPT !.tried = <<>>, !.attempts = Zero3]
     IN IF user = NoUser /\ ~minimal
          THEN Commit(Ctx([none EXCEPT !.pc = "threw"]))
        ELSE IF user = NoUser
          THEN Commit(Ctx([none EXCEPT !.pc = "w_simulated"]))
        ELSE Commit(Ctx(h0))

\* the 1000 ms timer of the signed-out minimal widget fires
WidgetSimulated ==
  /\ UNCHANGED srvVars
  /\ call.pc = "w_simulated"
  /\ UNCHANGED <<user, storageOk, calls>>
  /\ Commit(Ctx([call EXCEPT !.pc = "done",
                             !.ret = [text |-> uiSimulated, source |-> NoCall]]))

\* POST /api/gemini/chat answers
WGeminiServer(serverOk, answer, remoteOk) ==
  /\ UNCHANGED srvVars
  /\ call.pc = "w_gemini_server"
  /\ UNCHANGED <<user, storageOk, calls>>
  /\ IF serverOk
       THEN LET rows1 == createChatMessage(chatMessages, call.cuid, call.message, TRUE)
                rows2 == createChatMessage(rows1, call.cuid, answer, FALSE)
                c1 == ClientSaves([Ctx(call) EXCEPT !.rows = rows2], call.message,
                                  answer, remoteOk)
            IN Commit(ShowAnswer([c1 EXCEPT !.h.outcome.Gemini = "ok"], answer, "Gemini"))
       ELSE Commit(Ctx([call EXCEPT !.pc = "w_gemini_prime", !.attempts.Gemini = @ + 1]))

\* client-side chat.sendMessage(systemInstruction) answers
WGeminiPrime(directOk) ==
  /\ UNCHANGED srvVars
  /\ call.pc = "w_gemini_prime"
  /\ UNCHANGED <<user, storageOk, calls>>
  /\ IF directOk
       THEN Commit(Ctx([call EXCEPT !.pc = "w_gemini_prompt", !.attempts.Gemini = @ + 1]))
       ELSE Commit(WCallPerplexity(Ctx(call)))

\* client-side chat.sendMessage(message) answers
WGeminiPrompt(directOk, answer, remoteOk) ==
  /\ UNCHANGED srvVars
  /\ call.pc = "w_gemini_prompt"
  /\ UNCHANGED <<user, storageOk, calls>>
  /\ IF directOk
       THEN LET c1 == ClientSaves(Ctx(call), call.message, answer, remoteOk)
            IN Commit(ShowAnswer([c1 EXCEPT !.h.outcome.Gemini = "ok"], answer, "Gemini"))
       ELSE Commit(WCallPerplexity(Ctx(call)))

\* POST /api/perplexity/chat answers
WPerplexity(serverOk, answer, remoteOk) ==
  /\ UNCHANGED srvVars
  /\ call.pc = "w_perplexity"
  /\ UNCHANGED <<user, storageOk, calls>>
  /\ IF serverOk
       THEN LET rows1 == createChatMessage(chatMessages, call.cuid, call.message, TRUE)
                rows2 == createChatMessage(rows1, call.cuid, answer, FALSE)
                c1 == ClientSaves([Ctx(call) EXCEPT !.rows = rows2], call.message,
                                  answer, remoteOk)
            IN Commit(ShowAnswer([c1 EXCEPT !.h.outcome.Perplexity = "ok"], answer,
                                 "Perplexity"))
       ELSE Commit(WCallOpenAI(Ctx(call)))

\* POST /api/chat/message answers; sendChatMessage never rethrows: without a
\* usable response it answers from generateLocalResponse
WOpenAI(serverOk, answer, remoteOk) ==
  /\ UNCHANGED srvVars
  /\ call.pc = "w_openai"
  /\ UNCHANGED <<user, storageOk, calls>>
  /\ LET text == IF serverOk THEN answer ELSE generateLocalResponse(call.message)
         c0 == [Ctx(call) EXCEPT !.h.outcome.OpenAI = IF serverOk THEN "ok" ELSE "offline"]
         c1 == ClientSaves(c0, call.message, text, remoteOk)
     IN Commit(ShowAnswer(c1, text, "OpenAI"))

\* the caller's continuation after the await: the result is shown and the
\* call's frame is gone
CallReturn ==
  /\ UNCHANGED srvVars
  /\ call.pc \in {"done", "threw"}
  /\ call' = IdleCall
  /\ lastOp' = Other
  /\ UNCHANGED <<user, chatStorage, storageOk, clock, chatMessages, calls>>


Next ==
  \/ \E message \in Messages, minimal \in BOOLEAN : WidgetStart(message, minimal)
  \/ WidgetSimulated
  \/ \E serverOk \in BOOLEAN, answer \in Answers, remoteOk \in BOOLEAN :
       WGeminiServer(serverOk, answer, remoteOk)
  \/ \E directOk \in BOOLEAN : WGeminiPrime(directOk)
  \/ \E directOk \in BOOLEAN, answer \in Answers, remoteOk \in BOOLEAN :
       WGeminiPrompt(directOk, answer, remoteOk)
  \/ \E serverOk \in BOOLEAN, answer \in Answers, remoteOk \in BOOLEAN :
       WPerplexity(serverOk, answer, remoteOk)
  \/ \E serverOk \in BOOLEAN, answer \in Answers, remoteOk \in BOOLEAN :
       WOpenAI(serverOk, answer, remoteOk)
  \/ StorageFault
  \/ CallReturn
  \/ \E subject \in Subjects, question \in Questions, remoteOk \in BOOLEAN :
       HomeworkStart(subject, question, remoteOk)
  \/ \E serverOk \in BOOLEAN, answer \in Answers, remoteOk \in BOOLEAN :
       HwGeminiServer(serverOk, answer, remoteOk)
  \/ \E directOk \in BOOLEAN, remoteOk \in BOOLEAN :
       HwGeminiPrime(directOk, remoteOk)
  \/ \E directOk \in BOOLEAN, answer \in Answers, remoteOk \in BOOLEAN :
       HwGeminiPrompt(directOk, answer, remoteOk)
  \/ \E server \in {"ok", "rejected", "provider"}, answer \in Answers, remoteOk \in BOOLEAN :
       HwPerplexity(server, answer, remoteOk)
  \/ \E serverOk \in BOOLEAN, answer \in Answers, remoteOk \in BOOLEAN :
       HwOpenAI(serverOk, answer, remoteOk)
  \/ \E u \in Users : Login(u)
  \/ Logout
  \/ \E u \in Users, role \in {"user", "assistant"}, c \in Answers,
        remoteOk \in BOOLEAN :
       Append1(u, role, c, remoteOk)
  \/ \E remoteOk \in BOOLEAN : getChatHistory(remoteOk)

Spec == Init /\ [][Next]_vars

\* ------------------------------------------------------------ properties
Providers == {"Gemini", "Perplexity", "OpenAI"}

Done == call.pc = "done"

TotalAttempts(h) == h.attempts.Gemini + h.attempts.Perplexity + h.attempts.OpenAI

HasSuffix(text) ==
  Len(text) >= 1 /\ <<text[Len(text)]>> \in {GeminiSuffix, PerplexitySuffix}

Last(seq) == seq[Len(seq)]

\* C1: in both chains, when the first provider in the order (Gemini)
\* succeeds, the reported source is Gemini and neither the Perplexity nor
\* the OpenAI client is entered or sends anything during that call.
C1_FirstProviderOnly ==
  (Done /\ call.outcome.Gemini = "ok") =>
    /\ call.ret.source = "Gemini"
    /\ call.tried = <<"Gemini">>
    /\ call.attempts.Perplexity = 0
    /\ call.attempts.OpenAI = 0

C1_Witness ==
  /\ Done /\ call.kind = "widget" /\ call.outcome.Gemini = "ok"
  /\ call.attempts.Gemini = 3

\* C2 as stated: when Gemini fails and Perplexity succeeds, exactly two
\* provider invocations happen in the call, one per provider (no provider
\* client tries twice), and the source is Perplexity.
C2_Original ==
  (Done /\ call.outcome.Gemini = "failed" /\ call.outcome.Perplexity = "ok") =>
    /\ call.ret.source = "Perplexity"
    /\ call.tried = <<"Gemini", "Perplexity">>
    /\ call.attempts.Gemini = 1
    /\ call.attempts.Perplexity = 1
    /\ TotalAttempts(call) = 2

\* C2 amended: when Gemini fails and Perplexity succeeds, each of the two
\* clients is entered exactly once, OpenAI is not entered, the source is
\* Perplexity and the Perplexity client sends one request; the Gemini client
\* has gone from the server route to the client-side API before failing, so
\* it has made two or three outbound attempts.
C2_Amended ==
  (Done /\ call.outcome.Gemini = "failed" /\ call.outcome.Perplexity = "ok") =>
    /\ call.ret.source = "Perplexity"
    /\ call.tried = <<"Gemini", "Perplexity">>
    /\ call.attempts.Gemini \in {2, 3}
    /\ call.attempts.Perplexity = 1
    /\ call.attempts.OpenAI = 0

C2_Witness ==
  /\ Done /\ call.kind = "homework"
  /\ call.outcome.Gemini = "failed" /\ call.outcome.Perplexity = "ok"
  /\ call.attempts.Gemini = 3

\* C3: for a user who stays signed in, when the Gemini, Perplexity and
\* OpenAI backends are all unavailable the homework-help call returns the
\* fixed degraded-service message with the source that marks that no
\* provider answered.
C3_DegradedWhenAllFail ==
  (/\ Done /\ call.kind = "homework"
   /\ call.outcome.Gemini = "failed"
   /\ call.outcome.Perplexity = "failed"
   /\ call.outcome.OpenAI \in {"failed", "offline"}
   /\ user = call.uid) =>
    /\ call.ret.text = errorMessage
    /\ call.ret.source = "Error"

\* the turns a call has appended to the local cache
Appended(h) == SelectSeq(h.saved, LAMBDA t : t.stored)

\* C4: every completed homework-help call has appended exactly two turns to
\* the conversation store, the user's message and then one assistant turn.
C4_ExactlyTwoTurns ==
  (Done /\ call.kind = "homework") =>
    /\ Len(Appended(call)) = 2
    /\ Appended(call)[1].role = "user"
    /\ Appended(call)[2].role = "assistant"

\* C5 as stated: the answer carries a "(Powered by X)" suffix exactly when
\* the provider that served it is not the first one of the order (Gemini).
C5_Original ==
  (Done /\ call.ret.source \in Providers) =>
    (HasSuffix(call.ret.text) <=> call.ret.source # "Gemini")

\* C5 amended: the answer carries a "(Powered by X)" suffix exactly when it
\* was served by Gemini or Perplexity, and the suffix names that provider;
\* an answer served by OpenAI (the last of the order), the degraded message
\* and the signed-out notice carry none.
C5_Amended ==
  Done =>
    /\ HasSuffix(call.ret.text) <=> call.ret.source \in {"Gemini", "Perplexity"}
    /\ call.ret.source = "Gemini" => <<Last(call.ret.text)>> = GeminiSuffix
    /\ call.ret.source = "Perplexity" => <<Last(call.ret.text)>> = PerplexitySuffix

C5_Witness ==
  /\ Done /\ call.ret.source = "Gemini" /\ HasSuffix(call.ret.text)

\* C6: in both chains, each assistant turn an exchange has put in the
\* conversation store has the same content as the text the exchange
\* returned or showed, attribution included.
C6_StoredEqualsShown ==
  (Done /\ call.ret.source \in Providers) =>
    \A i \in 1..Len(call.saved) :
      (call.saved[i].role = "assistant" /\ call.saved[i].stored)
        => call.saved[i].content = call.ret.text

\* C7: the first provider a homework-help call tries is the one
\* getPreferredAIForSubject returns for the call's subject.
C7_SubjectDecidesFirst ==
  (call.pc # "idle" /\ call.kind = "homework" /\ call.tried # <<>>) =>
    call.tried[1] = getPreferredAIForSubject(call.subject)

CacheOf(userId) ==
  { m \in UNION { {Sessions(chatStorage)[i].messages[k] :
                     k \in 1..Len(Sessions(chatStorage)[i].messages)} :
                  i \in 1..Len(Sessions(chatStorage)) } : m.userId = userId }

\* C8: an append whose local write goes through leaves the turn it returns
\* as the last turn of that user's cached session and returns normally,
\* whether the remote write succeeded or failed.
C8_LocalDespiteRemote ==
  (lastOp.op = "append" /\ lastOp.localOk) =>
    /\ ~lastOp.threw
    /\ lastOp.ret \in CacheOf(lastOp.userId)
    /\ \A m \in CacheOf(lastOp.userId) : m.id <= lastOp.ret.id
    /\ lastOp.ret.content = lastOp.content
    /\ lastOp.ret.role = lastOp.role

C8_Witness ==
  /\ lastOp.op = "append" /\ lastOp.localOk /\ ~lastOp.remoteOk
  /\ Cardinality(CacheOf(lastOp.userId)) >= 2

RemoteOf(userId) ==
  { chatMessages[i] : i \in {j \in 1..Len(chatMessages) : chatMessages[j].userId = userId} }

IsAscending(seq) == \A i, j \in 1..Len(seq) : i < j => seq[i].id < seq[j].id

Range(seq) == {seq[i] : i \in 1..Len(seq)}

\* C10: for a signed-in user the history read never raises; when the remote
\* read succeeds it returns that user's rows of the remote store, oldest
\* first, and when the remote read fails it returns that user's turns of the
\* local cache, oldest first.
C10_HistoryReadThrough ==
  (lastOp.op = "history" /\ lastOp.user # NoUser) =>
    /\ ~lastOp.threw
    /\ IsAscending(lastOp.ret)
    /\ lastOp.remoteOk => Range(lastOp.ret) = RemoteOf(lastOp.user)
    /\ ~lastOp.remoteOk => Range(lastOp.ret) = CacheOf(lastOp.user)

C10_Witness ==
  /\ lastOp.op = "history" /\ lastOp.user # NoUser /\ ~lastOp.remoteOk
  /\ lastOp.ret # <<>>
  /\ RemoteOf(lastOp.user) # {}
  /\ \E u \in Users \ {lastOp.user} : CacheOf(u) # {}

\* the last n turns of a user's cached session
LogTail(userId, n) ==
  LET log == loadChatHistoryFromStorage(chatStorage, userId)
  IN SubSeq(log, Len(log) - n + 1, Len(log))

\* C11: in a user's conversation log, once an exchange that obtained a
\* response has completed (every one of its writes having gone through), the
\* turns it added alternate: each user turn is immediately followed by one
\* assistant turn, never by another user turn, and no assistant turn is
\* followed by a second one.
C11_PairedTurns ==
  (/\ Done /\ call.ret.source \in Providers
   /\ \A i \in 1..Len(call.saved) : call.saved[i].stored) =>
    LET tail == LogTail(call.uid, Len(call.saved))
    IN \A i \in 1..(Len(tail) - 1) : tail[i].role # tail[i + 1].role

\* C17: a provider client leaves the conversation store as it was: every
\* turn stored during a call was stored by the orchestrator, none by
\* sendGeminiMessage, getGeminiHomeworkHelp, sendPerplexityMessage,
\* getPerplexityHomeworkHelp, sendChatMessage or getHomeworkHelp.
C17_ClientsDoNotPersist ==
  call.pc # "idle" =>
    \A i \in 1..Len(call.saved) :
      call.saved[i].stored => call.saved[i].by = "orchestrator"

\* ===================================================== the server's routes
\* requests one server process handles at the same time, chunks one stream
\* carries
MaxReqs == 2
MaxChunks == 2

ServerMessages == { <<>>, <<"m">> }
ServerSubjects == { <<"M","a","t","h">> }
Chunks == { "c" }

\* getAIChatResponse's catch returns this text instead of throwing
openaiApology == <<"Sorry, I'm having trouble connecting to my knowledge base right now. Please try again later.">>

\* ------------------------------------------------ the express response
NewRes == [status |-> 200, headersSent |-> FALSE, ended |-> FALSE, body |-> <<>>]

\* faulty variant: the payload is written whether or not the headers have gone out
jsonAfterHeaders(res, status, payload) ==
  [res |-> [status |-> IF res.headersSent THEN res.status ELSE status,
            headersSent |-> TRUE, ended |-> TRUE,
            body |-> Append(res.body, [kind |-> "json", payload |-> payload])],
   threw |-> FALSE]

\* res.status(status).json(payload): sets the headers, writes the body and
\* ends the response; once the headers have gone out (after a res.write)
\* setting them throws and nothing is written
json(res, status, payload) ==
  IF res.headersSent
    THEN [res |-> res, threw |-> TRUE]
    ELSE [res |-> [status |-> status, headersSent |-> TRUE, ended |-> TRUE,
                   body |-> <<[kind |-> "json", payload |-> payload]>>],
          threw |-> FALSE]

\* res.write(`data: ${chunk}\n\n`)
write(res, chunk) ==
  [res EXCEPT !.headersSent = TRUE,
              !.body = Append(@, [kind |-> "chunk", payload |-> chunk])]

\* res.end()
end(res) == [res EXCEPT !.headersSent = TRUE, !.ended = TRUE]

\* a request as its handler starts
NewReq(route, userId, message) ==
  [route |-> route, pc |-> "start", userId |-> userId, message |-> message,
   userRow |-> 0, aiRow |-> 0, aiResponse |-> <<>>, failed |-> "no", chunks |-> 0,
   res |-> NewRes]

\* the handler answers with an error status; when that throws (headers
\* already sent) the rejection is left unhandled and the response open
Fail(r, status) ==
  LET j == json(r.res, status, "error")
  IN IF j.threw THEN [r EXCEPT !.pc = "crashed"]
                ELSE [r EXCEPT !.pc = "done", !.res = j.res]

\* the handler answers 200 with a payload
Reply(r, payload) ==
  LET j == json(r.res, 200, payload)
  IN [r EXCEPT !.pc = "done", !.res = j.res]

Awaiting(i, route, pc) ==
  /\ i \in 1..Len(reqs)
  /\ reqs[i].route = route
  /\ reqs[i].pc = pc

Arrives == Len(reqs) < MaxReqs

ServerStep(r, i, rows) ==
  /\ reqs' = [reqs EXCEPT ![i] = r]
  /\ chatMessages' = rows
  /\ UNCHANGED <<clientVars, posts, ranked, likes, saves>>

ServerArrival(r, rows) ==
  /\ reqs' = Append(reqs, r)
  /\ chatMessages' = rows
  /\ UNCHANGED <<clientVars, posts, ranked, likes, saves>>

\* ------------------------------------------- the server's provider clients
\* each returns [text, threw]; ok says whether the backend answered
getAIChatResponse(ok, answer) ==
  IF ok THEN [text |-> answer, threw |-> FALSE]
        ELSE [text |-> openaiApology, threw |-> FALSE]

\* outcome: "ok", "notok" (the backend answers a non-success status) or
\* "error" (the fetch rejects)
getPerplexityResponse(outcome, answer) ==
  IF outcome = "ok" THEN [text |-> answer, threw |-> FALSE]
                    ELSE [text |-> <<>>, threw |-> TRUE]

getGeminiResponse(ok, answer) ==
  IF ok THEN [text |-> answer, threw |-> FALSE]
        ELSE [text |-> <<>>, threw |-> TRUE]

\* ---------------------------------------------------------- POST /api/chat
\* up to the await of getAIChatResponse
ChatRoute(userId, message, dbOk) ==
  /\ Arrives
  /\ LET r == NewReq("chat", userId, message)
     IN IF userId = NoUser
          THEN ServerArrival(Fail(r, 401), chatMessages)
        ELSE IF message = <<>> \/ ~dbOk
          THEN ServerArrival(Fail(r, 400), chatMessages)
        ELSE ServerArrival([r EXCEPT !.pc = "provider",
                                     !.userRow = Len(chatMessages) + 1],
                           createChatMessage(chatMessages, userId, message, TRUE))

\* getAIChatResponse settles; the answer row is saved and sent
ChatAnswered(i, ok, answer, dbOk) ==
  /\ Awaiting(i, "chat", "provider")
  /\ LET aiResponse == getAIChatResponse(ok, answer)
         r == [reqs[i] EXCEPT !.failed = IF ok THEN "no" ELSE "provider"]
     IN IF aiResponse.threw \/ ~dbOk
          THEN ServerStep(Fail(r, 400), i, chatMessages)
          ELSE ServerStep(Reply([r EXCEPT !.aiRow = Len(chatMessages) + 1],
                                aiResponse.text),
                          i,
                          createChatMessage(chatMessages, r.userId, aiResponse.text,
                                            FALSE))

\* --------------------------------------------------- POST /api/gemini/chat
\* up to the await of getGeminiResponse
GeminiChatRoute(userId, message) ==
  /\ Arrives
  /\ LET r == NewReq("gemini_chat", userId, message)
     IN IF userId = NoUser
          THEN ServerArrival(Fail(r, 401), chatMessages)
        ELSE IF message = <<>>
          THEN ServerArrival(Fail(r, 500), chatMessages)
        ELSE ServerArrival([r EXCEPT !.pc = "provider"], chatMessages)

\* getGeminiResponse settles; the user row is saved
GeminiChatAnswered(i, ok, answer, dbOk) ==
  /\ Awaiting(i, "gemini_chat", "provider")
  /\ LET aiResponse == getGeminiResponse(ok, answer)
         r == [reqs[i] EXCEPT !.failed = IF ok THEN "no" ELSE "provider"]
     IN IF aiResponse.threw \/ ~dbOk
          THEN ServerStep(Fail(r, 500), i, chatMessages)
          ELSE ServerStep([r EXCEPT !.pc = "saving",
                                    !.userRow = Len(chatMessages) + 1,
                                    !.aiResponse = aiResponse.text],
                          i,
                          createChatMessage(chatMessages, r.userId, r.message, TRUE))

\* the insert of the user row has settled; the answer row is saved and sent
GeminiChatSaved(i, dbOk) ==
  /\ Awaiting(i, "gemini_chat", "saving")
  /\ LET r == reqs[i]
     IN IF ~dbOk
          THEN ServerStep(Fail(r, 500), i, chatMessages)
          ELSE ServerStep(Reply([r EXCEPT !.aiRow = Len(chatMessages) + 1],
                                r.aiResponse),
                          i,
                          createChatMessage(chatMessages, r.userId, r.aiResponse, FALSE))

\* -------------------------------------------- POST /api/perplexity/homework
\* up to the fetch of getPerplexityResponse
PerplexityHomeworkRoute(userId, subject, question, dbOk, apiKeySet) ==
  /\ Arrives
  /\ LET content == HomeworkContent(subject, question)
         r == NewReq("perplexity_homework", userId, content)
         r1 == [r EXCEPT !.userRow = Len(chatMessages) + 1]
         rows == createChatMessage(chatMessages, userId, content, TRUE)
     IN IF userId = NoUser
          THEN ServerArrival(Fail(r, 401), chatMessages)
        ELSE IF ~dbOk
          THEN ServerArrival(Fail(r, 500), chatMessages)
        ELSE IF ~apiKeySet
          THEN ServerArrival(Fail([r1 EXCEPT !.failed = "provider"], 500), rows)
        ELSE ServerArrival([r1 EXCEPT !.pc = "provider"], rows)

\* getPerplexityResponse settles; the answer row is saved and sent
PerplexityHomeworkAnswered(i, outcome, answer, dbOk) ==
  /\ Awaiting(i, "perplexity_homework", "provider")
  /\ LET aiResponse == getPerplexityResponse(outcome, answer)
         r == [reqs[i] EXCEPT !.failed = IF outcome = "ok" THEN "no" ELSE "provider"]
     IN IF aiResponse.threw \/ ~dbOk
          THEN ServerStep(Fail(r, 500), i, chatMessages)
          ELSE ServerStep(Reply([r EXCEPT !.aiRow = Len(chatMessages) + 1],
                                aiResponse.text),
                          i,
                          createChatMessage(chatMessages, r.userId, aiResponse.text,
                                            FALSE))

\* ---------------------------------------- POST /api/perplexity/chat/stream
\* faulty variant: the fetch is started without the user's message having been saved
StreamRouteWithoutSave(userId, message, dbOk, apiKeySet) ==
  /\ Arrives
  /\ LET r == NewReq("stream", userId, message)
     IN IF userId = NoUser
          THEN ServerArrival(Fail(r, 401), chatMessages)
        ELSE IF message = <<>> \/ ~dbOk
          THEN ServerArrival(Fail(r, 500), chatMessages)
        ELSE IF ~apiKeySet
          THEN ServerArrival(Fail([r EXCEPT !.failed = "before"], 500), chatMessages)
        ELSE ServerArrival([r EXCEPT !.pc = "fetching"], chatMessages)

\* the route and streamPerplexityResponse up to its fetch
StreamRoute(userId, message, dbOk, apiKeySet) ==
  /\ Arrives
  /\ LET r == NewReq("stream", userId, message)
         r1 == [r EXCEPT !.userRow = Len(chatMessages) + 1]
         rows == createChatMessage(chatMessages, userId, message, TRUE)
     IN IF userId = NoUser
          THEN ServerArrival(Fail(r, 401), chatMessages)
        ELSE IF message = <<>> \/ ~dbOk
          THEN ServerArrival(Fail(r, 500), chatMessages)
        ELSE IF ~apiKeySet
          THEN ServerArrival(Fail([r1 EXCEPT !.failed = "before"], 500), rows)
        ELSE ServerArrival([r1 EXCEPT !.pc = "fetching"], rows)

\* the catch of streamPerplexityResponse answers 500; when that throws, the
\* error reaches the catch of the route, which answers 500 again
streamCatch(r) ==
  LET j == json(r.res, 500, "error")
  IN IF j.threw THEN Fail(r, 500)
                ELSE [r EXCEPT !.pc = "done", !.res = j.res]

\* the fetch settles: it rejects ("error"), the backend answers a
\* non-success status ("notok"), the response has no body ("noreader"), or
\* the stream is open ("ok") and the event-stream headers are set
StreamFetched(i, outcome) ==
  /\ Awaiting(i, "stream", "fetching")
  /\ LET r == [reqs[i] EXCEPT !.failed = IF outcome = "ok" THEN "no" ELSE "before"]
     IN CASE outcome = "error" -> ServerStep(streamCatch(r), i, chatMessages)
          [] outcome = "notok" -> ServerStep(Fail(r, 502), i, chatMessages)
          [] outcome = "noreader" -> ServerStep(Fail(r, 500), i, chatMessages)
          [] outcome = "ok" -> ServerStep([r EXCEPT !.pc = "reading"], i, chatMessages)

\* reader.read() settles: a chunk is forwarded, the stream is done, or the
\* read rejects
StreamRead(i, outcome, chunk) ==
  /\ Awaiting(i, "stream", "reading")
  /\ LET r == reqs[i]
     IN CASE outcome = "chunk" ->
               /\ r.chunks < MaxChunks
               /\ ServerStep([r EXCEPT !.chunks = @ + 1, !.res = write(@, chunk)],
                             i, chatMessages)
          [] outcome = "done" ->
               ServerStep([r EXCEPT !.pc = "done", !.res = end(@)], i, chatMessages)
          [] outcome = "error" ->
               ServerStep(streamCatch([r EXCEPT !.failed =
                                         IF r.chunks = 0 THEN "before" ELSE "midstream"]),
                          i, chatMessages)

ServerInit ==
  /\ user = NoUser
  /\ chatStorage = NoData
  /\ storageOk = TRUE
  /\ clock = 1
  /\ chatMessages = <<>>
  /\ call = IdleCall
  /\ lastOp = Other
  /\ calls = 0
  /\ reqs = NoReqs
  /\ posts = NoPosts
  /\ ranked = NoRanking
  /\ likes = NoRows
  /\ saves = NoRows

ServerNext ==
  \/ \E u \in Users \cup {NoUser}, m \in ServerMessages, dbOk \in BOOLEAN :
       ChatRoute(u, m, dbOk)
  \/ \E i \in 1..MaxReqs, ok \in BOOLEAN, answer \in Answers, dbOk \in BOOLEAN :
       ChatAnswered(i, ok, answer, dbOk)
  \/ \E u \in Users \cup {NoUser}, m \in ServerMessages : GeminiChatRoute(u, m)
  \/ \E i \in 1..MaxReqs, ok \in BOOLEAN, answer \in Answers, dbOk \in BOOLEAN :
       GeminiChatAnswered(i, ok, answer, dbOk)
  \/ \E i \in 1..MaxReqs, dbOk \in BOOLEAN : GeminiChatSaved(i, dbOk)
  \/ \E u \in Users \cup {NoUser}, subject \in ServerSubjects, question \in Questions,
        dbOk \in BOOLEAN, apiKeySet \in BOOLEAN :
       PerplexityHomeworkRoute(u, subject, question, dbOk, apiKeySet)
  \/ \E i \in 1..MaxReqs, outcome \in {"ok", "notok", "error"}, answer \in Answers,
        dbOk \in BOOLEAN :
       PerplexityHomeworkAnswered(i, outcome, answer, dbOk)
  \/ \E u \in Users \cup {NoUser}, m \in ServerMessages, dbOk \in BOOLEAN,
        apiKeySet \in BOOLEAN :
       StreamRoute(u, m, dbOk, apiKeySet)
  \/ \E i \in 1..MaxReqs, outcome \in {"error", "notok", "noreader", "ok"} :
       StreamFetched(i, outcome)
  \/ \E i \in 1..MaxReqs, outcome \in {"chunk", "done", "error"}, chunk \in Chunks :
       StreamRead(i, outcome, chunk)

ServerSpec == ServerInit /\ [][ServerNext]_vars

\* ------------------------------------------------- properties of the server
Req(i) == reqs[i]

Paired(r) == r.userRow > 0 /\ r.aiRow > 0

\* C12: when requests of one user overlap, the user row and the answer row
\* of each request are stored as a unit: no other row of that user lies
\* between them in the chat_messages table.
C12_PairNotInterleaved ==
  \A i \in 1..Len(reqs) :
    Paired(Req(i)) =>
      \A k \in (Req(i).userRow + 1)..(Req(i).aiRow - 1) :
        chatMessages[k].userId # Req(i).userId

\* the stream route has got as far as asking the provider for the stream
StreamStarted(r) ==
  /\ r.route = "stream"
  /\ \/ r.pc \in {"fetching", "reading"}
     \/ r.chunks > 0
     \/ r.failed # "no"
     \/ r.pc = "done" /\ r.res.status = 200

\* C13: once the streaming route has asked the provider for the stream, and
\* from then on (chunks forwarded, stream ended or cut), the user's message
\* is a row of chat_messages.
C13_UserTurnBeforeStream ==
  \A i \in 1..Len(reqs) :
    StreamStarted(Req(i)) =>
      /\ Req(i).userRow \in 1..Len(chatMessages)
      /\ chatMessages[Req(i).userRow].userId = Req(i).userId
      /\ chatMessages[Req(i).userRow].message = Req(i).message
      /\ chatMessages[Req(i).userRow].isUser

C13_Witness ==
  \E i \in 1..Len(reqs) :
    /\ Req(i).route = "stream" /\ Req(i).pc = "crashed" /\ Req(i).chunks >= 1
    /\ Req(i).userRow < Len(chatMessages)

ErrorBody == <<[kind |-> "json", payload |-> "error"]>>

\* C14: a stream that fails before any chunk was forwarded is answered with
\* exactly one error response; a stream that fails after a chunk was
\* forwarded carries the forwarded chunks and nothing else.
C14_StreamFailure ==
  \A i \in 1..Len(reqs) :
    Req(i).route = "stream" =>
      /\ Req(i).failed = "before" =>
           /\ Req(i).res.body = ErrorBody
           /\ Req(i).res.status >= 400
           /\ Req(i).res.ended
           /\ Req(i).chunks = 0
      /\ Req(i).failed = "midstream" =>
           /\ Len(Req(i).res.body) = Req(i).chunks
           /\ \A k \in 1..Len(Req(i).res.body) : Req(i).res.body[k].kind = "chunk"

C14_Witness ==
  \E i, k \in 1..Len(reqs) :
    /\ Req(i).route = "stream" /\ Req(i).failed = "midstream" /\ Req(i).chunks = 2
    /\ Req(k).route = "stream" /\ Req(k).failed = "before" /\ Req(k).pc = "done"

\* C16: when the provider call of a request failed (network error or
\* non-success status), the server's provider client raised: the request
\* stored no answer row and was answered with an error status.
C16_FailureNotStored ==
  \A i \in 1..Len(reqs) :
    (Req(i).failed = "provider" /\ Req(i).pc = "done") =>
      /\ Req(i).aiRow = 0
      /\ Req(i).res.status >= 400

\* ================================================= a provider that hangs
\* the positions at which a homework-help call awaits the answer to an
\* outbound request
AwaitingProvider ==
  {"gemini_server", "gemini_prime", "gemini_prompt", "perplexity", "openai"}

\* the backend has taken the request and will never answer it: the awaited
\* fetch neither resolves nor rejects. No timer, abort signal or race is set
\* up around any provider call, so nothing resumes the call.
ProviderHangs ==
  /\ call.pc \in AwaitingProvider
  /\ call' = [call EXCEPT !.pc = "hung"]
  /\ lastOp' = Other
  /\ UNCHANGED <<user, chatStorage, storageOk, clock, chatMessages, calls, srvVars>>

\* what the event loop runs once a response or a rejection has arrived
SettlesGeminiServer ==
  \E serverOk \in BOOLEAN, answer \in Answers, remoteOk \in BOOLEAN :
    HwGeminiServer(serverOk, answer, remoteOk)

SettlesGeminiPrime ==
  \E directOk \in BOOLEAN, remoteOk \in BOOLEAN : HwGeminiPrime(directOk, remoteOk)

SettlesGeminiPrompt ==
  \E directOk \in BOOLEAN, answer \in Answers, remoteOk \in BOOLEAN :
    HwGeminiPrompt(directOk, answer, remoteOk)

SettlesPerplexity ==
  \E server \in {"ok", "rejected", "provider"}, answer \in Answers, remoteOk \in BOOLEAN :
    HwPerplexity(server, answer, remoteOk)

SettlesOpenAI ==
  \E serverOk \in BOOLEAN, answer \in Answers, remoteOk \in BOOLEAN :
    HwOpenAI(serverOk, answer, remoteOk)

LiveNext ==
  \/ \E subject \in Subjects, question \in Questions, remoteOk \in BOOLEAN :
       HomeworkStart(subject, question, remoteOk)
  \/ SettlesGeminiServer
  \/ SettlesGeminiPrime
  \/ SettlesGeminiPrompt
  \/ SettlesPerplexity
  \/ SettlesOpenAI
  \/ ProviderHangs
  \/ CallReturn
  \/ \E u \in Users : Login(u)
  \/ Logout

\* The event loop runs the continuation of an await whose request has been
\* answered or rejected: each Settles action is enabled exactly at its own
\* position of AwaitingProvider and stays enabled until it is taken (or the
\* provider hangs), so weak fairness of the five of them says that a call is
\* never left at such a position for ever. A settled call returns to its
\* caller.
Handled == []<>(call.pc \notin AwaitingProvider)

LiveSpec == Init /\ [][LiveNext]_vars /\ Handled /\ WF_vars(CallReturn)

Started == call.pc \notin {"idle", "done", "threw"}

Terminal == call.pc \in {"done", "threw"}

\* C15: a call of the fallback chain that has started eventually reaches a
\* terminal state, also when a provider it asked never responds: the hung
\* request is cut off and the next provider is tried.
C15_HungProviderCutOff == Started ~> Terminal

\* ========================================================= trending lists
\* rows of the posts table a ranking query is run on
MaxPosts == 3
\* getTrendingPosts(limit: number = 10)
DefaultLimit == 10

Visibilities == {"public", "private", "followers"}
\* counters of a post: untouched, viewed once, liked once, saved once
Engagements ==
  { [views |-> 0, likes |-> 0, saves |-> 0], [views |-> 1, likes |-> 0, saves |-> 0],
    [views |-> 0, likes |-> 1, saves |-> 0], [views |-> 0, likes |-> 0, saves |-> 1] }
Limits == {2, DefaultLimit}

\* the posts table: ids are serial and created_at defaults to now(), so a
\* later row has the larger id and the later createdAt
PostTable(t) ==
  [i \in 1..Len(t) |-> [id |-> i, userId |-> 1, visibility |-> t[i].visibility,
                        views |-> t[i].counters.views, likes |-> t[i].counters.likes,
                        saves |-> t[i].counters.saves, createdAt |-> i]]

\* faulty variant: the weights of likes and saves are exchanged
trendingScoreSwapped(post) == (post.likes * 3 + post.views + post.saves * 2)

\* sql`(${posts.likes} * 2 + ${posts.views} + ${posts.saves} * 3)`
trendingScore(post) == (post.likes * 2 + post.views + post.saves * 3)

\* sql`(${posts.views} + ${posts.likes} * 2 + ${posts.saves} * 3)`
trendingScoreWithMetrics(post) == (post.views + post.likes * 2 + post.saves * 3)

\* ORDER BY score DESC LIMIT limit over the selected rows: every order of
\* the rows in which the score never increases, rows of equal score in any
\* order (the query names no second sort key), cut after limit rows;
\* score[i] is the value of the ORDER BY expression on rows[i]
OrderByDescLimit(rows, score, limit) ==
  LET n == Len(rows)
      orders == { p \in [1..n -> 1..n] :
                    /\ \A i, j \in 1..n : i < j => p[i] # p[j]
                    /\ \A i \in 1..(n - 1) : score[p[i]] >= score[p[i + 1]] }
      m == IF n < limit THEN n ELSE limit
  IN { [i \in 1..m |-> rows[p[i]]] : p \in orders }

\* GET /api/posts/trending -> DatabaseStorage.getTrendingPosts(limit)
getTrendingPosts(limit) ==
  LET rows == SelectSeq(posts, LAMBDA post : post.visibility = "public")
  IN OrderByDescLimit(rows, [i \in 1..Len(rows) |-> trendingScore(rows[i])], limit)

\* GET /api/analytics/trending -> DatabaseStorage.getTrendingPostsWithMetrics(10):
\* every post has its user row, so the inner join keeps every post
getTrendingPostsWithMetrics(limit) ==
  OrderByDescLimit(posts,
                   [i \in 1..Len(posts) |-> trendingScoreWithMetrics(posts[i])],
                   limit)

\* the query of a trending route; ranked holds the list until it is sent
GetTrendingPosts(limit) ==
  /\ ranked = NoRanking
  /\ \E result \in getTrendingPosts(limit) :
       ranked' = [query |-> "getTrendingPosts", limit |-> limit, result |-> result]
  /\ UNCHANGED <<clientVars, chatMessages, reqs, posts, likes, saves>>

GetAnalyticsTrending ==
  /\ ranked = NoRanking
  /\ \E result \in getTrendingPostsWithMetrics(DefaultLimit) :
       ranked' = [query |-> "getTrendingPostsWithMetrics", limit |-> DefaultLimit,
                  result |-> result]
  /\ UNCHANGED <<clientVars, chatMessages, reqs, posts, likes, saves>>

\* res.json(trendingPosts)
SendTrending ==
  /\ ranked # NoRanking
  /\ ranked' = NoRanking
  /\ UNCHANGED <<clientVars, chatMessages, reqs, posts, likes, saves>>

RankInit ==
  /\ user = NoUser
  /\ chatStorage = NoData
  /\ storageOk = TRUE
  /\ clock = 1
  /\ chatMessages = <<>>
  /\ call = IdleCall
  /\ lastOp = Other
  /\ calls = 0
  /\ reqs = NoReqs
  /\ \E n \in 0..MaxPosts :
       \E t \in [1..n -> [visibility : Visibilities, counters : Engagements]] :
         posts = PostTable(t)
  /\ ranked = NoRanking
  /\ likes = NoRows
  /\ saves = NoRows

RankNext ==
  \/ \E limit \in Limits : GetTrendingPosts(limit)
  \/ GetAnalyticsTrending
  \/ SendTrending

RankSpec == RankInit /\ [][RankNext]_vars

\* -------------------------------------------- properties of trending lists
Listed == ranked # NoRanking

\* the score of the design: views*1 + likes*2 + saves*3
WeightedScore(post) == post.views * 1 + post.likes * 2 + post.saves * 3

\* the rows a query ranks
Candidates ==
  IF ranked.query = "getTrendingPosts"
    THEN SelectSeq(posts, LAMBDA post : post.visibility = "public")
    ELSE posts

\* C18: both ranking queries rank by views*1 + likes*2 + saves*3: in every
\* list they return that score never increases from one row to the next, no
\* row left out of a list has a higher score than a row in it, and for
\* views=10, likes=5, saves=2 the score is 26.
C18_TrendingScore ==
  /\ trendingScore([views |-> 10, likes |-> 5, saves |-> 2]) = 26
  /\ trendingScoreWithMetrics([views |-> 10, likes |-> 5, saves |-> 2]) = 26
  /\ Listed =>
       /\ \A i, j \in 1..Len(ranked.result) :
            i < j => WeightedScore(ranked.result[i]) >= WeightedScore(ranked.result[j])
       /\ \A k \in 1..Len(Candidates) :
            (\A i \in 1..Len(ranked.result) : ranked.result[i] # Candidates[k]) =>
              \A i \in 1..Len(ranked.result) :
                WeightedScore(ranked.result[i]) >= WeightedScore(Candidates[k])

C18_Witness ==
  /\ Listed /\ ranked.query = "getTrendingPosts" /\ Len(ranked.result) = 3
  /\ ranked.result[1].saves = 1 /\ ranked.result[1].id = 3
  /\ ranked.result[2].likes = 1 /\ ranked.result[2].id = 2
  /\ ranked.result[3].views = 1 /\ ranked.result[3].id = 1

\* C19: every row of every trending list, from getTrendingPosts and from
\* getTrendingPostsWithMetrics, is a post whose visibility is public.
C19_OnlyPublic ==
  Listed =>
    \A i \in 1..Len(ranked.result) :
      posts[ranked.result[i].id].visibility = "public"

\* C20: a trending list holds at most limit rows, in descending order of
\* score, rows of equal score newest first (createdAt descending).
C20_TieNewestFirst ==
  (Listed /\ ranked.query = "getTrendingPosts") =>
    /\ Len(ranked.result) <= ranked.limit
    /\ \A i, j \in 1..Len(ranked.result) :
         i < j =>
           \/ WeightedScore(ranked.result[i]) > WeightedScore(ranked.result[j])
           \/ /\ WeightedScore(ranked.result[i]) = WeightedScore(ranked.result[j])
              /\ ranked.result[i].createdAt > ranked.result[j].createdAt

\* --------------------------------------- engagement metrics of one post
\* the largest value of a counter of a post in the initial posts table
MaxCount == 3

Counters == 0..MaxCount

\* a row of the posts table with its comments counter
PostRow(id, views, likeCount, saveCount, comments) ==
  [id |-> id, userId |-> 1, visibility |-> "public", views |-> views,
   likes |-> likeCount, saves |-> saveCount, comments |-> comments, createdAt |-> id]

\* (num / den * 100).toFixed(2), as a count of hundredths: the nearest
\* multiple of 0.01, the larger one of two equally near
toFixed2(num, den) == (2 * num * 10000 + den) \div (2 * den)

\* DatabaseStorage.getPostEngagementMetrics on the selected row: the rate is
\* the string toFixed returns when views > 0 and the number 0 otherwise
getPostEngagementMetrics(post) ==
  LET totalInteractions == post.likes + post.saves + post.comments
      engagementRate ==
        IF post.views > 0
          THEN [type |-> "string", hundredths |-> toFixed2(totalInteractions, post.views)]
          ELSE [type |-> "number", hundredths |-> 0]
  IN [post |-> post,
      engagementRate |-> engagementRate,
      interactionBreakdown |->
        [likes |-> post.likes, saves |-> post.saves,
         comments |-> post.comments, views |-> post.views]]

\* GET /api/analytics/user-engagement/:id of a logged-in session: the metrics
\* of the post, or 500 'Post not found' when no row has that id
GetUserEngagement(postId) ==
  /\ ranked = NoRanking
  /\ ranked' =
       IF postId \in 1..Len(posts)
         THEN [query |-> "getPostEngagementMetrics", status |-> 200,
               result |-> getPostEngagementMetrics(posts[postId])]
         ELSE [query |-> "getPostEngagementMetrics", status |-> 500]
  /\ UNCHANGED <<clientVars, chatMessages, reqs, posts, likes, saves>>

\* res.json(engagementMetrics): the answer leaves the server
SendEngagement ==
  /\ ranked # NoRanking
  /\ ranked' = NoRanking
  /\ UNCHANGED <<clientVars, chatMessages, reqs, posts, likes, saves>>

MetricsInit ==
  /\ user = NoUser
  /\ chatStorage = NoData
  /\ storageOk = TRUE
  /\ clock = 1
  /\ chatMessages = <<>>
  /\ call = IdleCall
  /\ lastOp = Other
  /\ calls = 0
  /\ reqs = NoReqs
  /\ \E views \in Counters, likeCount \in Counters, saveCount \in Counters,
        comments \in Counters :
       posts = << PostRow(1, views, likeCount, saveCount, comments) >>
  /\ ranked = NoRanking
  /\ likes = NoRows
  /\ saves = NoRows

MetricsNext ==
  \/ \E postId \in 1..2 : GetUserEngagement(postId)
  \/ SendEngagement

MetricsSpec == MetricsInit /\ [][MetricsNext]_vars

\* (likes + saves + comments) / max(views, 1) * 100 rounded to 2 decimals,
\* as a count of hundredths
RateOfDesign(post) ==
  LET den == IF post.views > 1 THEN post.views ELSE 1
      num == post.likes + post.saves + post.comments
  IN (2 * num * 10000 + den) \div (2 * den)

\* C21: the engagement rate getPostEngagementMetrics reports is
\* (likes + saves + comments) / max(views, 1) * 100 rounded to 2 decimals for
\* all non-negative counters, views = 0 with interactions included; it is 0
\* when every counter is 0 and 20.00 for views=100, likes=10, saves=5,
\* comments=5.
C21_EngagementRate ==
  /\ getPostEngagementMetrics(PostRow(1, 0, 0, 0, 0)).engagementRate.hundredths = 0
  /\ getPostEngagementMetrics(PostRow(1, 100, 10, 5, 5)).engagementRate.hundredths = 2000
  /\ (ranked.query = "getPostEngagementMetrics" /\ ranked.status = 200) =>
       ranked.result.engagementRate.hundredths = RateOfDesign(ranked.result.post)

\* ---------------------------------------- social interaction routes
\* ids asked for in /api/posts/:id: post 1 exists, post 2 does not
PostIds == {1, 2}

Tables == {"likes", "saves"}

\* JSON bodies of PUT /api/posts/:id: the columns the body names
Bodies == { [visibility |-> "private"], [views |-> 0], [likes |-> 0 - 1],
            [saves |-> 0 - 1] }

\* a request of a social route while it is handled and after it was answered
\* (status); post is the row the route read with storage.getPost
SocialReq(route, table, userId, postId, pc, status) ==
  [route |-> route, table |-> table, pc |-> pc, userId |-> userId,
   postId |-> postId, status |-> status,
   post |-> IF postId \in 1..Len(posts) THEN posts[postId] ELSE [id |-> 0]]

\* the rows of a table
Rows(table) == IF table = "likes" THEN likes ELSE saves

\* where(and(eq(userId, userId), eq(postId, postId)))
Matches(row, userId, postId) == row.userId = userId /\ row.postId = postId

\* getLike / getSave: is there a row of the user for the post
getRow(table, userId, postId) ==
  \E k \in 1..Len(Rows(table)) : Matches(Rows(table)[k], userId, postId)

\* the tables after a statement wrote rows into one of them
WriteRows(table, rows) ==
  /\ likes' = IF table = "likes" THEN rows ELSE likes
  /\ saves' = IF table = "saves" THEN rows ELSE saves

\* update posts set <table> = <table> + delta where id = postId [and <table> > 0]
Count(table, postId, delta, onlyPositive) ==
  IF postId \in 1..Len(posts)
    THEN LET post == posts[postId]
             cur == IF table = "likes" THEN post.likes ELSE post.saves
         IN IF onlyPositive /\ ~(cur > 0)
              THEN posts
              ELSE IF table = "likes"
                     THEN [posts EXCEPT ![postId].likes = cur + delta]
                     ELSE [posts EXCEPT ![postId].saves = cur + delta]
    ELSE posts

\* faulty variant of the create route: no check for an existing row
CreateRouteUnchecked(table, userId, postId) ==
  /\ Arrives
  /\ reqs' = Append(reqs,
       IF userId = NoUser THEN SocialReq("create", table, userId, postId, "done", 401)
       ELSE IF postId \notin 1..Len(posts)
         THEN SocialReq("create", table, userId, postId, "done", 404)
       ELSE SocialReq("create", table, userId, postId, "insert", 0))
  /\ UNCHANGED <<clientVars, chatMessages, posts, ranked, likes, saves>>

\* POST /api/posts/:id/like and /save up to the call of createLike /
\* createSave: 401 without a user, 404 without the post, 400 when getLike /
\* getSave finds a row
CreateRoute(table, userId, postId) ==
  /\ Arrives
  /\ reqs' = Append(reqs,
       IF userId = NoUser THEN SocialReq("create", table, userId, postId, "done", 401)
       ELSE IF postId \notin 1..Len(posts)
         THEN SocialReq("create", table, userId, postId, "done", 404)
       ELSE IF getRow(table, userId, postId)
         THEN SocialReq("create", table, userId, postId, "done", 400)
       ELSE SocialReq("create", table, userId, postId, "insert", 0))
  /\ UNCHANGED <<clientVars, chatMessages, posts, ranked, likes, saves>>

\* createLike / createSave, first statement: insert the row
CreateInserted(i) ==
  /\ Awaiting(i, "create", "insert")
  /\ WriteRows(reqs[i].table,
       Append(Rows(reqs[i].table), [userId |-> reqs[i].userId, postId |-> reqs[i].postId]))
  /\ reqs' = [reqs EXCEPT ![i].pc = "count"]
  /\ UNCHANGED <<clientVars, chatMessages, posts, ranked>>

\* faulty variant of the second statement: the counter is written from the
\* row the route read earlier, not incremented in the database
CreateCountedFromRead(i) ==
  /\ Awaiting(i, "create", "count")
  /\ posts' = IF reqs[i].table = "likes"
                THEN [posts EXCEPT ![reqs[i].postId].likes = reqs[i].post.likes + 1]
                ELSE [posts EXCEPT ![reqs[i].postId].saves = reqs[i].post.saves + 1]
  /\ reqs' = [reqs EXCEPT ![i].pc = "done", ![i].status = 201]
  /\ UNCHANGED <<clientVars, chatMessages, ranked, likes, saves>>

\* createLike / createSave, second statement: increment the counter of the
\* post; the route then answers 201
CreateCounted(i) ==
  /\ Awaiting(i, "create", "count")
  /\ posts' = Count(reqs[i].table, reqs[i].postId, 1, FALSE)
  /\ reqs' = [reqs EXCEPT ![i].pc = "done", ![i].status = 201]
  /\ UNCHANGED <<clientVars, chatMessages, ranked, likes, saves>>

\* DELETE /api/posts/:id/like and /save up to the first statement of
\* deleteLike / deleteSave: every row of the user for the post is deleted;
\* 404 when there was none
DeleteRoute(table, userId, postId) ==
  /\ Arrives
  /\ LET kept == SelectSeq(Rows(table), LAMBDA row : ~Matches(row, userId, postId))
         count == Len(Rows(table)) - Len(kept)
     IN IF userId = NoUser
          THEN /\ reqs' = Append(reqs, SocialReq("delete", table, userId, postId, "done", 401))
               /\ UNCHANGED <<likes, saves>>
          ELSE /\ WriteRows(table, kept)
               /\ reqs' = Append(reqs,
                    IF count > 0
                      THEN SocialReq("delete", table, userId, postId, "count", 0)
                      ELSE SocialReq("delete", table, userId, postId, "done", 404))
  /\ UNCHANGED <<clientVars, chatMessages, posts, ranked>>

\* deleteLike / deleteSave, second statement: decrement the counter of the
\* post where it is above 0; the route then answers 200
DeleteCounted(i) ==
  /\ Awaiting(i, "delete", "count")
  /\ posts' = Count(reqs[i].table, reqs[i].postId, 0 - 1, TRUE)
  /\ reqs' = [reqs EXCEPT ![i].pc = "done", ![i].status = 200]
  /\ UNCHANGED <<clientVars, chatMessages, ranked, likes, saves>>

\* GET /api/posts/:id: 404 without the post, else incrementPostViews and the
\* post as it was read
ViewRoute(postId) ==
  /\ Arrives
  /\ IF postId \in 1..Len(posts)
       THEN /\ posts' = [posts EXCEPT ![postId].views = @ + 1]
            /\ reqs' = Append(reqs, SocialReq("view", "posts", NoUser, postId, "done", 200))
       ELSE /\ reqs' = Append(reqs, SocialReq("view", "posts", NoUser, postId, "done", 404))
            /\ UNCHANGED posts
  /\ UNCHANGED <<clientVars, chatMessages, ranked, likes, saves>>

\* update(posts).set(postUpdate): every column the body names is written
updatePost(post, postUpdate) ==
  [post EXCEPT
     !.visibility = IF "visibility" \in DOMAIN postUpdate THEN postUpdate.visibility ELSE @,
     !.views = IF "views" \in DOMAIN postUpdate THEN postUpdate.views ELSE @,
     !.likes = IF "likes" \in DOMAIN postUpdate THEN postUpdate.likes ELSE @,
     !.saves = IF "saves" \in DOMAIN postUpdate THEN postUpdate.saves ELSE @]

\* PUT /api/posts/:id: 401 without a user, 404 without the post, 403 for a
\* user who is not the author, else storage.updatePost(postId, req.body)
PutRoute(userId, postId, postUpdate) ==
  /\ Arrives
  /\ IF userId = NoUser
       THEN /\ reqs' = Append(reqs, SocialReq("put", "posts", userId, postId, "done", 401))
            /\ UNCHANGED posts
     ELSE IF postId \notin 1..Len(posts)
       THEN /\ reqs' = Append(reqs, SocialReq("put", "posts", userId, postId, "done", 404))
            /\ UNCHANGED posts
     ELSE IF posts[postId].userId # userId
       THEN /\ reqs' = Append(reqs, SocialReq("put", "posts", userId, postId, "done", 403))
            /\ UNCHANGED posts
     ELSE /\ posts' = [posts EXCEPT ![postId] = updatePost(@, postUpdate)]
          /\ reqs' = Append(reqs, SocialReq("put", "posts", userId, postId, "done", 200))
  /\ UNCHANGED <<clientVars, chatMessages, ranked, likes, saves>>

SocialInit ==
  /\ user = NoUser
  /\ chatStorage = NoData
  /\ storageOk = TRUE
  /\ clock = 1
  /\ chatMessages = <<>>
  /\ call = IdleCall
  /\ lastOp = Other
  /\ calls = 0
  /\ reqs = NoReqs
  /\ posts = << PostRow(1, 0, 0, 0, 0) >>
  /\ ranked = NoRanking
  /\ likes = NoRows
  /\ saves = NoRows

SocialNext ==
  \/ \E table \in Tables, u \in Users \cup {NoUser}, postId \in PostIds :
       CreateRoute(table, u, postId)
  \/ \E i \in 1..MaxReqs : CreateInserted(i)
  \/ \E i \in 1..MaxReqs : CreateCounted(i)
  \/ \E table \in Tables, u \in Users \cup {NoUser}, postId \in PostIds :
       DeleteRoute(table, u, postId)
  \/ \E i \in 1..MaxReqs : DeleteCounted(i)
  \/ \E postId \in PostIds : ViewRoute(postId)
  \/ \E u \in Users \cup {NoUser}, postId \in PostIds, postUpdate \in Bodies :
       PutRoute(u, postId, postUpdate)

SocialSpec == SocialInit /\ [][SocialNext]_vars

\* ---------------------------------- properties of the social routes
AllAnswered == \A i \in 1..Len(reqs) : reqs[i].pc = "done"

\* request i is a like request of a logged-in user for post 1
IsLike(i) ==
  /\ reqs[i].route = "create" /\ reqs[i].table = "likes"
  /\ reqs[i].userId # NoUser /\ reqs[i].postId = 1

\* the number of rows of a table for a post
RowCount(table, postId) ==
  Len(SelectSeq(Rows(table), LAMBDA row : row.postId = postId))

\* C22: a user likes a post and, once that request was answered, sends the
\* like request for the same post again: the second request is answered 400
\* 'Post already liked', and the post's likes counter, 1 higher after the
\* first request, stays where it is, as does the likes table.
C22_DoubleLike ==
  [][ ( /\ Len(reqs) = 1 /\ IsLike(1) /\ reqs[1].status = 201
        /\ Len(reqs') = 2
        /\ reqs'[2].route = "create" /\ reqs'[2].table = "likes"
        /\ reqs'[2].userId = reqs[1].userId /\ reqs'[2].postId = 1 ) =>
      ( /\ posts[1].likes = 1
        /\ reqs'[2].pc = "done" /\ reqs'[2].status = 400
        /\ posts'[1].likes = 1
        /\ likes' = likes ) ]_vars

C22_Witness ==
  /\ Len(reqs) = 2 /\ IsLike(1) /\ IsLike(2)
  /\ reqs[1].userId = reqs[2].userId
  /\ reqs[1].status = 201 /\ reqs[2].status = 400
  /\ reqs[2].post.likes = 1
  /\ posts[1].likes = 1 /\ RowCount("likes", 1) = 1

\* C23: when every request was a like of post 1, each by a different user,
\* and all of them were answered, every one was answered 201 and the likes
\* counter is the number of requests, however their statements interleaved.
C23_ConcurrentLikes ==
  ( /\ Len(reqs) >= 1 /\ AllAnswered
    /\ \A i \in 1..Len(reqs) : IsLike(i)
    /\ \A i, j \in 1..Len(reqs) : i # j => reqs[i].userId # reqs[j].userId ) =>
    /\ \A i \in 1..Len(reqs) : reqs[i].status = 201
    /\ posts[1].likes = Len(reqs)

\* two likes of different users overlapped: the second route read the post
\* before the first one counted
C23_Witness ==
  /\ Len(reqs) = 2 /\ AllAnswered /\ IsLike(1) /\ IsLike(2)
  /\ reqs[1].userId # reqs[2].userId
  /\ reqs[2].post.likes = 0
  /\ posts[1].likes = 2

\* C24: in every state the likes table holds at most one row per (user,
\* post) and so does the saves table, concurrent requests of one user
\* included.
C24_OneRowPerPair ==
  \A table \in Tables :
    \A k, l \in 1..Len(Rows(table)) :
      k # l => ~Matches(Rows(table)[k], Rows(table)[l].userId, Rows(table)[l].postId)

\* C25: whatever the routes do (view, like, unlike, save, unsave, update
\* post), a post's likes and saves are never negative and its views never
\* go down.
C25_CounterInvariants ==
  [][ \A postId \in 1..Len(posts) :
        /\ posts'[postId].likes >= 0
        /\ posts'[postId].saves >= 0
        /\ posts'[postId].views >= posts[postId].views ]_vars

\* C28: when only like, unlike, save and unsave requests were made and all
\* of them were answered, each post's likes counter is the number of its
\* rows in the likes table and its saves counter the number of its rows in
\* the saves table.
C28_CounterIsRowCount ==
  ( /\ AllAnswered
    /\ \A i \in 1..Len(reqs) : reqs[i].route \in {"create", "delete"} ) =>
    \A postId \in 1..Len(posts) :
      /\ posts[postId].likes = RowCount("likes", postId)
      /\ posts[postId].saves = RowCount("saves", postId)

\* ------------------------------------------------- chat history query
\* the largest number of rows of the chat_messages table in the initial state
MaxRows == 3

\* limits passed to getChatMessagesByUser besides the default
HistoryLimits == {1, 2}

\* rows inserted one after the other by createChatMessage
ChatTable(t) ==
  [i \in 1..Len(t) |-> [id |-> i, userId |-> t[i].userId, message |-> <<"m">>,
                        isUser |-> t[i].isUser, createdAt |-> i]]

\* GET /api/chat/history: 401 without a session, else the rows
\* getChatMessagesByUser(userId) selects
ChatHistoryRoute(userId) ==
  /\ ranked = NoRanking
  /\ ranked' =
       IF userId = NoUser
         THEN [query |-> "history", status |-> 401]
         ELSE [query |-> "history", status |-> 200, userId |-> userId,
               limit |-> HistoryLimit,
               result |-> getChatMessagesByUser(chatMessages, userId)]
  /\ UNCHANGED <<clientVars, chatMessages, reqs, posts, likes, saves>>

\* DatabaseStorage.getChatMessagesByUser(userId, limit)
GetChatMessagesByUser(userId, limit) ==
  /\ ranked = NoRanking
  /\ ranked' = [query |-> "history", status |-> 200, userId |-> userId,
                limit |-> limit,
                result |-> getChatMessagesByUserLimit(chatMessages, userId, limit)]
  /\ UNCHANGED <<clientVars, chatMessages, reqs, posts, likes, saves>>

\* res.json(messages): the answer leaves the server
SendHistory ==
  /\ ranked # NoRanking
  /\ ranked' = NoRanking
  /\ UNCHANGED <<clientVars, chatMessages, reqs, posts, likes, saves>>

HistoryInit ==
  /\ user = NoUser
  /\ chatStorage = NoData
  /\ storageOk = TRUE
  /\ clock = 1
  /\ \E n \in 0..MaxRows :
       \E t \in [1..n -> [userId : Users, isUser : BOOLEAN]] :
         chatMessages = ChatTable(t)
  /\ call = IdleCall
  /\ lastOp = Other
  /\ calls = 0
  /\ reqs = NoReqs
  /\ posts = NoPosts
  /\ ranked = NoRanking
  /\ likes = NoRows
  /\ saves = NoRows

HistoryNext ==
  \/ \E u \in Users \cup {NoUser} : ChatHistoryRoute(u)
  \/ \E u \in Users, limit \in HistoryLimits : GetChatMessagesByUser(u, limit)
  \/ SendHistory

HistorySpec == HistoryInit /\ [][HistoryNext]_vars

\* the last n elements of a sequence (all of it when it is shorter)
LastN(seq, n) ==
  IF Len(seq) <= n THEN seq ELSE SubSeq(seq, Len(seq) - n + 1, Len(seq))

\* the rows of a user in a table, in the order of insertion
TurnsOf(rows, userId) == SelectSeq(rows, LAMBDA r : r.userId = userId)

\* C26: the history of a user is that user's turns oldest first, and under a
\* limit N the N most recent of them, in that order.
C26_MostRecentN ==
  (ranked.query = "history" /\ ranked.status = 200) =>
    /\ \A i, j \in 1..Len(ranked.result) :
         i < j => ranked.result[i].createdAt < ranked.result[j].createdAt
    /\ ranked.result = LastN(TurnsOf(chatMessages, ranked.userId), ranked.limit)

\* ------------------------------------------------- abandoned streams
\* the caller of a stream goes away while the relay is at work: the request
\* is marked with the number of chunks forwarded so far. Neither the route
\* nor streamPerplexityResponse listens for the close of the request or of
\* the response, so no code of the relay runs at this point
ClientDisconnects(i) ==
  /\ i \in 1..Len(reqs)
  /\ reqs[i].route = "stream"
  /\ reqs[i].pc \in {"fetching", "reading"}
  /\ "closedAt" \notin DOMAIN reqs[i]
  /\ LET r == reqs[i]
         closed == [f \in DOMAIN r \cup {"closedAt"} |->
                      IF f = "closedAt" THEN r.chunks ELSE r[f]]
     IN ServerStep(closed, i, chatMessages)

AbandonNext ==
  \/ \E u \in Users \cup {NoUser}, m \in ServerMessages, dbOk \in BOOLEAN,
        apiKeySet \in BOOLEAN :
       StreamRoute(u, m, dbOk, apiKeySet)
  \/ \E i \in 1..MaxReqs, outcome \in {"error", "notok", "noreader", "ok"} :
       StreamFetched(i, outcome)
  \/ \E i \in 1..MaxReqs, outcome \in {"chunk", "done", "error"}, chunk \in Chunks :
       StreamRead(i, outcome, chunk)
  \/ \E i \in 1..MaxReqs : ClientDisconnects(i)

AbandonSpec == ServerInit /\ [][AbandonNext]_vars

Abandoned(r) == r.route = "stream" /\ "closedAt" \in DOMAIN r

\* C27: once the caller has abandoned a stream the relay reads and forwards
\* no further chunk of the provider, and the user turn stored before the
\* stream began is still stored.
C27_AbandonedStreamStops ==
  \A i \in 1..Len(reqs) :
    Abandoned(Req(i)) =>
      /\ Req(i).chunks = Req(i).closedAt
      /\ Req(i).userRow \in 1..Len(chatMessages)
      /\ chatMessages[Req(i).userRow].message = Req(i).message

\* the handler of the request has run to its end: no continuation is left
HandlerOver(r) == r.pc \notin {"start", "fetching", "reading"}

\* C29: whenever the stream route has run to its end, on whichever path
\* (missing key, provider error status, missing body, normal completion,
\* read error after chunks were written), the HTTP response is finished:
\* ended, or answered with an error, and not left open.
C29_ResponseFinished ==
  \A i \in 1..Len(reqs) :
    (Req(i).route = "stream" /\ HandlerOver(Req(i))) => Req(i).res.ended

\* ------------------------------------- local chat cache, user by user
\* the number of messages saved in one run of the cache operations
MaxSaves == 3

\* faulty variant: the whole item is emptied, whoever's sessions it holds
clearChatHistoryAll(storage, userId, localOk) ==
  IF ~localOk THEN storage
  ELSE IF ~storage.exists THEN storage
  ELSE Stored(<<>>)

\* clearChatHistory: nothing stored -> return; else the sessions of the user
\* are filtered out and the rest written back; an exception of localStorage
\* is caught and logged
clearChatHistory(storage, userId, localOk) ==
  IF ~localOk THEN storage
  ELSE IF ~storage.exists THEN storage
  ELSE Stored(SelectSeq(storage.sessions, LAMBDA session : session.userId # userId))

\* a component saves a message of a user
SaveChatMessage(userId, role, content, remoteOk) ==
  /\ clock <= MaxSaves
  /\ LET r == saveChatMessageToStorage(St, userId, role, content, storageOk, remoteOk)
     IN /\ chatStorage' = r.storage
        /\ clock' = r.clock
        /\ lastOp' = [op |-> "save", before |-> chatStorage, userId |-> userId,
                      role |-> role, content |-> content, localOk |-> storageOk,
                      ret |-> r.ret]
  /\ UNCHANGED <<user, storageOk, chatMessages, call, calls, srvVars>>

\* a component clears the history of a user
ClearChatHistory(userId) ==
  /\ chatStorage' = clearChatHistory(chatStorage, userId, storageOk)
  /\ lastOp' = [op |-> "clear", before |-> chatStorage, userId |-> userId,
                localOk |-> storageOk]
  /\ UNCHANGED <<user, storageOk, clock, chatMessages, call, calls, srvVars>>

CacheInit ==
  /\ user = NoUser
  /\ chatStorage \in InitialStorages
  /\ storageOk = TRUE
  /\ clock = 1
  /\ chatMessages = <<>>
  /\ call = IdleCall
  /\ lastOp = Other
  /\ calls = 0
  /\ reqs = NoReqs
  /\ posts = NoPosts
  /\ ranked = NoRanking
  /\ likes = NoRows
  /\ saves = NoRows

CacheNext ==
  \/ \E u \in Users, role \in {"user", "assistant"}, c \in Answers, remoteOk \in BOOLEAN :
       SaveChatMessage(u, role, c, remoteOk)
  \/ \E u \in Users : ClearChatHistory(u)
  \/ StorageFault

CacheSpec == CacheInit /\ [][CacheNext]_vars

\* the messages stored for a user before the last operation, and now
Before(userId) == loadChatHistoryFromStorage(lastOp.before, userId)
Now(userId) == loadChatHistoryFromStorage(chatStorage, userId)

\* every other user's stored messages are as they were
OthersUntouched == \A v \in Users : v # lastOp.userId => Now(v) = Before(v)

\* C30 as stated: a save appends exactly one message to the end of the
\* user's session and a clear leaves the user without stored messages,
\* whatever happens to the local write; other users' messages are untouched.
C30_Original ==
  /\ lastOp.op = "save" =>
       /\ Now(lastOp.userId) = Append(Before(lastOp.userId), lastOp.ret)
       /\ OthersUntouched
  /\ lastOp.op = "clear" =>
       /\ Now(lastOp.userId) = <<>>
       /\ OthersUntouched

\* C30 amended: when the local write goes through, a save appends exactly
\* the returned message, with the role and content given, to the end of the
\* user's session, and a clear leaves the user without stored messages; when
\* the local write fails the cache is as it was; in every case the stored
\* messages of every other user, and their order, are unchanged.
C30_Amended ==
  /\ lastOp.op = "save" =>
       /\ lastOp.localOk =>
            /\ Now(lastOp.userId) = Append(Before(lastOp.userId), lastOp.ret)
            /\ lastOp.ret.role = lastOp.role /\ lastOp.ret.content = lastOp.content
            /\ lastOp.ret.userId = lastOp.userId
       /\ ~lastOp.localOk => chatStorage = lastOp.before
       /\ OthersUntouched
  /\ lastOp.op = "clear" =>
       /\ lastOp.localOk => Now(lastOp.userId) = <<>>
       /\ ~lastOp.localOk => chatStorage = lastOp.before
       /\ OthersUntouched

\* user 1's history of two messages was cleared while user 2 had messages
C30_Witness ==
  /\ lastOp.op = "clear" /\ lastOp.localOk /\ lastOp.userId = 1
  /\ Len(Before(1)) = 2 /\ Now(1) = <<>>
  /\ Len(Now(2)) = 2

====
